---------------------------- MODULE Spec2Model ----------------------------
(***************************************************************************)
(* tasks/libs/issue/model/constants.py: the constants table of the issue   *)
(* auto-assignment model.  The module body binds three names, MODEL,       *)
(* BASE_MODEL and TEAMS, once, when the module is loaded.  Importers only  *)
(* reference these names; the operations below are the reads Python offers *)
(* on a str and on a tuple of str.                                         *)
(*                                                                         *)
(* Strings are TLA+ strings; Python positions are 0-based and are kept     *)
(* 0-based in every operator named Py*.                                    *)
(***************************************************************************)
EXTENDS Integers, Sequences, FiniteSets, TLC

(***************************************************************************)
(* The literals of the module body.                                        *)
(***************************************************************************)
MODEL == "/issue_auto_assign_model"

BASE_MODEL == "distilbert-base-uncased-finetuned-sst-2-english"

TEAMS == <<
    "container-ecosystems",
    "windows-agent",
    "remote-config",
    "container-platform",
    "documentation",
    "agent-security",
    "container-app",
    "agent-all",
    "processes",
    "agent-platform",
    "agent-release-management",
    "networks",
    "ebpf-platform",
    "agent-apm",
    "single-machine-performance",
    "agent-e2e-testing",
    "agent-developer-tools",
    "triage",
    "windows-kernel-integrations",
    "container-integrations",
    "sdlc-security",
    "opentelemetry",
    "universal-service-monitoring",
    "agent-build-and-releases",
    "agent-configuration",
    "agent-runtimes",
    "agent-integrations",
    "agent-metric-pipelines",
    "agent-log-pipelines",
    "platform-integrations",
    "agent-ci-experience",
    "asm-go",
    "agent-cspm",
    "debugger",
    "database-monitoring",
    "network-device-monitoring",
    "serverless",
    "apm-onboarding",
    "fleet",
    "agent-processing-and-routing",
    "agent-discovery"
>>

(***************************************************************************)
(* Python values: a str and a tuple carry their type with them, a def      *)
(* would be a function object.                                             *)
(***************************************************************************)
PyStr(s) == [kind |-> "str", value |-> s]

PyTuple(t) == [kind |-> "tuple", value |-> t]

PyFunction(n) == [kind |-> "function", value |-> n]

\* len(t)
PyLen(t) == Len(t)

\* t[i]: positions 0 .. len-1, and -len .. -1 counted from the end; any
\* other position raises IndexError.
PyGetItem(t, i) ==
    IF i >= 0 /\ i < Len(t) THEN [ok |-> TRUE, result |-> t[i + 1]]
    ELSE IF i < 0 /\ i >= 0 - Len(t) THEN [ok |-> TRUE, result |-> t[Len(t) + i + 1]]
    ELSE [ok |-> FALSE, result |-> "IndexError"]

\* s in t
PyContains(t, s) == \E k \in 1..Len(t) : t[k] = s

\* t.index(s): the first position holding s, ValueError when there is none.
PyIndex(t, s) ==
    IF PyContains(t, s)
    THEN [ok |-> TRUE,
          result |-> (CHOOSE k \in 1..Len(t) :
                         /\ t[k] = s
                         /\ \A m \in 1..(k - 1) : t[m] # s) - 1]
    ELSE [ok |-> FALSE, result |-> "ValueError"]

\* s[i] for an in-range, non-negative position of a str.
PyChar(s, i) == SubSeq(s, i + 1, i + 1)

(***************************************************************************)
(* Loading the module: the body runs top to bottom and leaves a namespace  *)
(* with exactly the names it assigns.                                      *)
(***************************************************************************)
\* as LoadModule, with the last entry of TEAMS lost.
LoadModule_MissingTeam ==
    [MODEL |-> PyStr(MODEL), BASE_MODEL |-> PyStr(BASE_MODEL),
     TEAMS |-> PyTuple(SubSeq(TEAMS, 1, Len(TEAMS) - 1))]

\* as LoadModule, with 'fleet' entered as a second 'networks'.
LoadModule_DuplicateTeam ==
    [MODEL |-> PyStr(MODEL), BASE_MODEL |-> PyStr(BASE_MODEL),
     TEAMS |-> PyTuple([k \in 1..Len(TEAMS) |->
                           IF TEAMS[k] = "fleet" THEN "networks" ELSE TEAMS[k]])]

\* as LoadModule, with a trailing blank left in 'triage'.
LoadModule_TrailingSpace ==
    [MODEL |-> PyStr(MODEL), BASE_MODEL |-> PyStr(BASE_MODEL),
     TEAMS |-> PyTuple([k \in 1..Len(TEAMS) |->
                           IF TEAMS[k] = "triage" THEN "triage " ELSE TEAMS[k]])]

\* as LoadModule, with a helper function defined beside the constants.
LoadModule_WithAccessor ==
    [MODEL |-> PyStr(MODEL), BASE_MODEL |-> PyStr(BASE_MODEL),
     TEAMS |-> PyTuple(TEAMS), get_team |-> PyFunction("get_team")]

\* as LoadModule, with 'fleet' renamed.
LoadModule_RenamedTeam ==
    [MODEL |-> PyStr(MODEL), BASE_MODEL |-> PyStr(BASE_MODEL),
     TEAMS |-> PyTuple([k \in 1..Len(TEAMS) |->
                           IF TEAMS[k] = "fleet" THEN "fleet-automation" ELSE TEAMS[k]])]

\* as LoadModule, with 'remote-config' spelt as a Python identifier.
LoadModule_UnderscoreTeam ==
    [MODEL |-> PyStr(MODEL), BASE_MODEL |-> PyStr(BASE_MODEL),
     TEAMS |-> PyTuple([k \in 1..Len(TEAMS) |->
                           IF TEAMS[k] = "remote-config" THEN "remote_config" ELSE TEAMS[k]])]

\* as LoadModule, with MODEL given relative to the working directory.
LoadModule_RelativeModel ==
    [MODEL |-> PyStr("issue_auto_assign_model"), BASE_MODEL |-> PyStr(BASE_MODEL),
     TEAMS |-> PyTuple(TEAMS)]

LoadModule ==
    [MODEL |-> PyStr(MODEL), BASE_MODEL |-> PyStr(BASE_MODEL),
     TEAMS |-> PyTuple(TEAMS)]

(***************************************************************************)
(* The importers.                                                          *)
(***************************************************************************)
Readers == {"r1", "r2"}

\* The positions an importer may ask for: every valid one, from either end,
\* and one past each end.
IndexInputs == (0 - Len(TEAMS) - 1) .. Len(TEAMS)

\* The labels an importer may look up: every team, the two model strings,
\* and near misses.
Probes ==
    {TEAMS[k] : k \in 1..Len(TEAMS)}
        \cup {MODEL, BASE_MODEL, "", "Networks", "fleet ", "agent_apm"}

VARIABLES
    ns,      \* the module's namespace: name -> value
    first,   \* first[name]: what the first reference to a name returned
    ev       \* the read that completed last

vars == <<ns, first, ev>>

Init ==
    /\ ns = LoadModule
    /\ first = <<>>
    /\ ev = [reader |-> "", op |-> "load", arg |-> "", ok |-> TRUE, result |-> ""]

\* What is kept of a reference to `name`: the first value stays.
Remember(name, v) ==
    IF name \in DOMAIN first THEN first ELSE (name :> v) @@ first

\* as ReadMODEL, but the reader normalises the path in place after reading.
ReadMODEL_Normalising(r) ==
    /\ first' = Remember("MODEL", ns.MODEL.value)
    /\ ev' = [reader |-> r, op |-> "MODEL", arg |-> "", ok |-> TRUE,
              result |-> ns.MODEL.value]
    /\ ns' = [ns EXCEPT !.MODEL = PyStr(ns.MODEL.value \o "/")]

\* constants.MODEL
ReadMODEL(r) ==
    /\ first' = Remember("MODEL", ns.MODEL.value)
    /\ ev' = [reader |-> r, op |-> "MODEL", arg |-> "", ok |-> TRUE,
              result |-> ns.MODEL.value]
    /\ UNCHANGED ns

\* constants.BASE_MODEL
ReadBASE_MODEL(r) ==
    /\ first' = Remember("BASE_MODEL", ns.BASE_MODEL.value)
    /\ ev' = [reader |-> r, op |-> "BASE_MODEL", arg |-> "", ok |-> TRUE,
              result |-> ns.BASE_MODEL.value]
    /\ UNCHANGED ns

\* as ReadTEAMS, but the reader takes the last label off the shared sequence.
ReadTEAMS_Popping(r) ==
    /\ first' = Remember("TEAMS", ns.TEAMS.value)
    /\ ev' = [reader |-> r, op |-> "TEAMS", arg |-> "", ok |-> TRUE,
              result |-> PyLen(ns.TEAMS.value)]
    /\ ns' = [ns EXCEPT !.TEAMS =
                 PyTuple(SubSeq(ns.TEAMS.value, 1, Len(ns.TEAMS.value) - 1))]

\* constants.TEAMS: the reader holds the whole sequence.
ReadTEAMS(r) ==
    /\ first' = Remember("TEAMS", ns.TEAMS.value)
    /\ ev' = [reader |-> r, op |-> "TEAMS", arg |-> "", ok |-> TRUE,
              result |-> PyLen(ns.TEAMS.value)]
    /\ UNCHANGED ns

\* len(constants.TEAMS)
TeamsLen(r) ==
    /\ ev' = [reader |-> r, op |-> "len", arg |-> "", ok |-> TRUE,
              result |-> PyLen(ns.TEAMS.value)]
    /\ UNCHANGED <<ns, first>>

\* constants.TEAMS[i]
TeamsGetItem(r, i) ==
    /\ ev' = [reader |-> r, op |-> "getitem", arg |-> i,
              ok |-> PyGetItem(ns.TEAMS.value, i).ok,
              result |-> PyGetItem(ns.TEAMS.value, i).result]
    /\ UNCHANGED <<ns, first>>

\* s in constants.TEAMS
TeamsContains(r, s) ==
    /\ ev' = [reader |-> r, op |-> "contains", arg |-> s, ok |-> TRUE,
              result |-> PyContains(ns.TEAMS.value, s)]
    /\ UNCHANGED <<ns, first>>

\* constants.TEAMS.index(s)
TeamsIndex(r, s) ==
    /\ ev' = [reader |-> r, op |-> "index", arg |-> s,
              ok |-> PyIndex(ns.TEAMS.value, s).ok,
              result |-> PyIndex(ns.TEAMS.value, s).result]
    /\ UNCHANGED <<ns, first>>

Next ==
    \E r \in Readers :
        \/ ReadMODEL(r)
        \/ ReadBASE_MODEL(r)
        \/ ReadTEAMS(r)
        \/ TeamsLen(r)
        \/ \E i \in IndexInputs : TeamsGetItem(r, i)
        \/ \E s \in Probes : TeamsContains(r, s)
        \/ \E s \in Probes : TeamsIndex(r, s)

Spec == Init /\ [][Next]_vars

(***************************************************************************)
(* Properties.                                                             *)
(***************************************************************************)
\* The position t[i] names, counted from the front.
FromFront(t, i) == IF i >= 0 THEN i ELSE i + Len(t)

AllNames == {"MODEL", "BASE_MODEL", "TEAMS"}

\* C1: TEAMS holds exactly 41 entries: len(TEAMS) is 41 whenever it is
\* taken, and the positions that do not raise IndexError are -41 .. 40.
TeamsHas41Entries ==
    /\ PyLen(ns.TEAMS.value) = 41
    /\ ev.op \in {"len", "TEAMS"} => ev.result = 41
    /\ ev.op = "getitem" => (ev.ok <=> (ev.arg >= -41 /\ ev.arg <= 40))

TeamsLenTaken == ev.op = "len" /\ ev.result = 41

\* C2: no label occurs twice in TEAMS: different positions hold different
\* labels, there are as many labels as positions, and looking up the label
\* found at a position gives that position back.
TeamsNoDuplicates ==
    LET t == ns.TEAMS.value IN
    /\ \A i, j \in 1..Len(t) : i # j => t[i] # t[j]
    /\ Cardinality({t[k] : k \in 1..Len(t)}) = Len(t)
    /\ (ev.op = "getitem" /\ ev.ok) =>
           /\ PyIndex(t, ev.result).ok
           /\ PyIndex(t, ev.result).result = FromFront(t, ev.arg)

LastTeamFetched ==
    /\ ev.op = "getitem" /\ ev.ok
    /\ ev.arg = Len(ns.TEAMS.value) - 1
    /\ ev.result = "agent-discovery"

Whitespace == {" ", "\t", "\n", "\r", "\f"}

Trimmed(s) ==
    /\ Len(s) > 0
    /\ PyChar(s, 0) \notin Whitespace
    /\ PyChar(s, Len(s) - 1) \notin Whitespace

\* C3: every entry of TEAMS is a non-empty string that neither starts nor
\* ends with whitespace, and so is every label a reader is handed.
TeamsEntriesTrimmed ==
    /\ \A k \in 1..Len(ns.TEAMS.value) : Trimmed(ns.TEAMS.value[k])
    /\ (ev.op = "getitem" /\ ev.ok) => Trimmed(ev.result)

TriageFetchedFromEnd ==
    ev.op = "getitem" /\ ev.ok /\ ev.arg < 0 /\ ev.result = "triage"

\* C4: MODEL and BASE_MODEL are non-empty strings and every read of either,
\* by any reader, after any other reads, returns
\* "/issue_auto_assign_model", resp.
\* "distilbert-base-uncased-finetuned-sst-2-english": the value the first
\* read returned, with the bindings left as they were.
ModelStringsStable ==
    /\ ns.MODEL = PyStr("/issue_auto_assign_model")
    /\ ns.BASE_MODEL = PyStr("distilbert-base-uncased-finetuned-sst-2-english")
    /\ Len(ns.MODEL.value) > 0 /\ Len(ns.BASE_MODEL.value) > 0
    /\ ev.op = "MODEL" =>
           /\ ev.result = "/issue_auto_assign_model"
           /\ ev.result = first.MODEL
    /\ ev.op = "BASE_MODEL" =>
           /\ ev.result = "distilbert-base-uncased-finetuned-sst-2-english"
           /\ ev.result = first.BASE_MODEL

ModelReadAfterAll ==
    /\ DOMAIN first = AllNames
    /\ ev.op = "MODEL" /\ ev.reader = "r2"

\* C5: TEAMS is never mutated: in every reachable state it is the sequence
\* the module body wrote, the sequence the first reader got is that one
\* too, and no step of any reader changes the binding.
TeamsNeverMutated ==
    /\ [](/\ ns.TEAMS = PyTuple(TEAMS)
          /\ "TEAMS" \in DOMAIN first => first.TEAMS = TEAMS)
    /\ [][ns'.TEAMS = ns.TEAMS]_vars

TeamsHeldThenSearched ==
    /\ "TEAMS" \in DOMAIN first
    /\ ev.op = "index" /\ ev.ok /\ ev.reader = "r2"

\* C6: the namespace holds exactly MODEL (a str), BASE_MODEL (a str) and
\* TEAMS (a tuple of labels), and no function.
ModuleExposesThreeValues ==
    /\ DOMAIN ns = AllNames
    /\ ns.MODEL.kind = "str"
    /\ ns.BASE_MODEL.kind = "str"
    /\ ns.TEAMS.kind = "tuple"
    /\ \A n \in DOMAIN ns : ns[n].kind # "function"

AllThreeReferenced == DOMAIN first = AllNames /\ ev.op = "TEAMS"

\* C7: "networks" and "fleet" are both in TEAMS: a membership test on
\* either answers True and an index lookup of either succeeds.
ExampleTeamsPresent ==
    /\ PyContains(ns.TEAMS.value, "networks")
    /\ PyContains(ns.TEAMS.value, "fleet")
    /\ (ev.op = "contains" /\ ev.arg \in {"networks", "fleet"}) => ev.result
    /\ (ev.op = "index" /\ ev.arg \in {"networks", "fleet"}) => ev.ok

FleetTested == ev.op = "contains" /\ ev.arg = "fleet" /\ ev.result

KebabChars ==
    {"a", "b", "c", "d", "e", "f", "g", "h", "i", "j", "k", "l", "m",
     "n", "o", "p", "q", "r", "s", "t", "u", "v", "w", "x", "y", "z",
     "0", "1", "2", "3", "4", "5", "6", "7", "8", "9", "-"}

IsKebab(s) ==
    /\ Len(s) > 0
    /\ \A i \in 0..(Len(s) - 1) : PyChar(s, i) \in KebabChars
    /\ PyChar(s, 0) # "-"
    /\ PyChar(s, Len(s) - 1) # "-"
    /\ \A i \in 0..(Len(s) - 2) : ~(PyChar(s, i) = "-" /\ PyChar(s, i + 1) = "-")

\* C8: every entry of TEAMS is lowercase kebab-case: only a-z, 0-9 and
\* '-', no '-' at either end and no two '-' in a row.
TeamsAreKebabCase ==
    /\ \A k \in 1..Len(ns.TEAMS.value) : IsKebab(ns.TEAMS.value[k])
    /\ (ev.op = "getitem" /\ ev.ok) => IsKebab(ev.result)

DigitTeamFetched ==
    ev.op = "getitem" /\ ev.ok /\ ev.result = "agent-e2e-testing"

\* C9: the constants do not collide: MODEL differs from BASE_MODEL, MODEL
\* starts with '/', and neither is a label of TEAMS.
ConstantsDoNotCollide ==
    /\ ns.MODEL.value # ns.BASE_MODEL.value
    /\ PyChar(ns.MODEL.value, 0) = "/"
    /\ ~PyContains(ns.TEAMS.value, ns.MODEL.value)
    /\ ~PyContains(ns.TEAMS.value, ns.BASE_MODEL.value)
    /\ (ev.op = "contains" /\ ev.arg \in {ns.MODEL.value, ns.BASE_MODEL.value})
           => ~ev.result
    /\ (ev.op = "index" /\ ev.arg \in {ns.MODEL.value, ns.BASE_MODEL.value})
           => ~ev.ok

ModelStringLookedUp ==
    /\ "MODEL" \in DOMAIN first
    /\ ev.op = "index" /\ ev.arg = first.MODEL /\ ~ev.ok

=============================================================================
